---- MODULE Spec2Model ----
(***************************************************************************)
(* Model of HttpClient (src/src/models/httpResponse.ts): prepareOptions,   *)
(* ignoreProxy, decodeEscapedUnicodeCharacters and the response handlers   *)
(* of send.                                                                *)
(*                                                                         *)
(* Text is a sequence of one-character strings; response bytes and the     *)
(* UTF-16 code units of a decoded body are sequences of integers.          *)
(* An absent (undefined / null) string is the empty sequence where the     *)
(* code only tests truthiness.                                             *)
(***************************************************************************)
EXTENDS Integers, Sequences, FiniteSets, TLC

VARIABLES
    \* ---- prepareOptions and the head of send (one logical request)
    pc,             \* position of send and prepareOptions: start, awaitBody,
                    \* awaitCognito, awaitImport, prepared, prepareRejected,
                    \* issued, rejected
    httpRequest,    \* the caller's request: url, headers (a reference), body, underlying
    heap,           \* header mapping objects by reference
    settings,       \* IRestClientSettings
    options,        \* the transport options being built
    sendPromise,    \* the promise send returns: pending, rejected
    authorization,  \* the local authorization of prepareOptions, once it is read
    cognito,        \* the awsCognito(authorization) call: idle, pending, resolved, failed
    request,        \* the transport request got.default returns, and its listeners
    \* ---- response consumption (several concurrent requests)
    phase,          \* per request: idle, preparing, issued, responded, ended, failed
    promise,        \* per request: none, pending, resolved, rejected
    resolvedOn,     \* per request: the event whose handler called resolve
    response,       \* per request: content-type and raw headers of the response
    encoding,       \* per request: closure variable encoding
    bodySize,       \* per request: closure variable bodySize
    headersSize,    \* per request: closure variable headersSize
    bodyBuffer,     \* per request: closure variable bodyBuffer
    httpResponse,   \* per request: the HttpResponse object
    received,       \* per request: the data chunks delivered so far (history)
    decodeEscaped,  \* settings.decodeEscapedUnicodeCharacters
    \* ---- ignoreProxy as a function of its inputs
    proxyPc,
    requestUrl,
    excludeHostsForProxy,
    ignoreResult

prepVars  == <<pc, httpRequest, heap, settings, options, sendPromise, authorization,
               cognito, request>>
sendVars  == <<phase, promise, resolvedOn, response, encoding, bodySize, headersSize,
               bodyBuffer, httpResponse, received, decodeEscaped>>
proxyVars == <<proxyPc, requestUrl, excludeHostsForProxy, ignoreResult>>
vars      == <<prepVars, sendVars, proxyVars>>

(***************************************************************************)
(* Bounds                                                                  *)
(***************************************************************************)
MaxTail   == 4    \* characters after "<scheme> " in an Authorization value
MaxChunks == 3    \* data events delivered in all, over the concurrent requests
MaxList   == 2    \* entries of an exclude list

(***************************************************************************)
(* Text helpers                                                            *)
(***************************************************************************)
UpperChars == <<"A","B","C","D","E","F","G","H","I","J","K","L","M",
                "N","O","P","Q","R","S","T","U","V","W","X","Y","Z">>
LowerChars == <<"a","b","c","d","e","f","g","h","i","j","k","l","m",
                "n","o","p","q","r","s","t","u","v","w","x","y","z">>

ToLowerChar(c) ==
    IF \E i \in DOMAIN UpperChars : UpperChars[i] = c
    THEN LowerChars[CHOOSE i \in DOMAIN UpperChars : UpperChars[i] = c]
    ELSE c

\* String.prototype.toLowerCase
ToLowerCase(s) == [i \in DOMAIN s |-> ToLowerChar(s[i])]

\* the JavaScript \s class, as far as the alphabets here go
IsSpace(c) == c \in {" ", "\t", "\n", "\r"}

\* first index >= from at which s holds c, or 0
IndexOf(s, c, from) ==
    IF \E i \in from..Len(s) : s[i] = c
    THEN CHOOSE i \in from..Len(s) : s[i] = c /\ \A j \in from..(i-1) : s[j] # c
    ELSE 0

StartsWith(s, p) == Len(s) >= Len(p) /\ SubSeq(s, 1, Len(p)) = p

Includes(s, c) == \E i \in DOMAIN s : s[i] = c

\* String.prototype.split(":"): every ':' separates, empty fields are kept
RECURSIVE SplitOn(_, _)
SplitOn(s, c) ==
    LET i == IndexOf(s, c, 1) IN
    IF i = 0 THEN <<s>>
    ELSE <<SubSeq(s, 1, i-1)>> \o SplitOn(SubSeq(s, i+1, Len(s)), c)

\* String.prototype.split(/\s+/): every maximal run of white space separates;
\* a leading or trailing run leaves an empty first or last field
RECURSIVE SkipSpace(_)
SkipSpace(s) == IF s # <<>> /\ IsSpace(s[1]) THEN SkipSpace(Tail(s)) ELSE s

RECURSIVE SplitSpace(_, _)
SplitSpace(s, cur) ==
    IF s = <<>> THEN <<cur>>
    ELSE IF IsSpace(s[1]) THEN <<cur>> \o SplitSpace(SkipSpace(s), <<>>)
    ELSE SplitSpace(Tail(s), Append(cur, s[1]))

\* Array.prototype.join(' ')
RECURSIVE JoinSpace(_)
JoinSpace(parts) ==
    IF parts = <<>> THEN <<>>
    ELSE IF Len(parts) = 1 THEN parts[1]
    ELSE parts[1] \o <<" ">> \o JoinSpace(Tail(parts))

\* Array.from(new Set(list)): first occurrences, in order
RECURSIVE Dedup(_)
Dedup(list) ==
    IF list = <<>> THEN <<>>
    ELSE LET front == Dedup(SubSeq(list, 1, Len(list) - 1))
             last  == list[Len(list)]
         IN IF \E i \in DOMAIN front : front[i] = last THEN front ELSE Append(front, last)

(***************************************************************************)
(* url.parse, for URLs of the form scheme://host[:port][/path]             *)
(***************************************************************************)
UrlParse(u) ==
    LET colon     == IndexOf(u, ":", 1)
        authStart == colon + 3
        slash     == IndexOf(u, "/", authStart)
        authEnd   == IF slash = 0 THEN Len(u) ELSE slash - 1
        authority == ToLowerCase(SubSeq(u, authStart, authEnd))
        pcolon    == IndexOf(authority, ":", 1)
    IN [ protocol |-> ToLowerCase(SubSeq(u, 1, colon)),
         host     |-> authority,
         hostname |-> IF pcolon = 0 THEN authority ELSE SubSeq(authority, 1, pcolon - 1),
         port     |-> IF pcolon = 0 THEN <<>>
                      ELSE SubSeq(authority, pcolon + 1, Len(authority)) ]

(***************************************************************************)
(* HttpClient.ignoreProxy                                                  *)
(***************************************************************************)
\* the test of the branch for a request URL without a port
NoPortMatch(urlParts, hostName) == Len(urlParts) = 1 /\ urlParts[1] = hostName

\* the test of the branch for a request URL with a port
PortMatch_AnyPort(urlParts, hostName, port) == urlParts[1] = hostName
PortMatch(urlParts, hostName, port) ==
    LET ph == urlParts[1]
        noPp == Len(urlParts) < 2 \/ urlParts[2] = <<>>
    IN ph = hostName /\ (noPp \/ urlParts[2] = port)

ignoreProxy(url, excludeHosts) ==
    IF excludeHosts = <<>> THEN FALSE
    ELSE LET resolvedUrl == UrlParse(url)
             hostName    == ToLowerCase(resolvedUrl.hostname)
             port        == resolvedUrl.port
             excludeHostsProxyList ==
                 Dedup([i \in DOMAIN excludeHosts |-> ToLowerCase(excludeHosts[i])])
         IN \E i \in DOMAIN excludeHostsProxyList :
                LET urlParts == SplitOn(excludeHostsProxyList[i], ":") IN
                IF port = <<>>
                THEN NoPortMatch(urlParts, hostName)
                ELSE PortMatch(urlParts, hostName, port)

(***************************************************************************)
(* Header mappings: functions from header names to values, held in a heap  *)
(* of objects so that a clone and an alias differ.                         *)
(***************************************************************************)
None    == <<>>
Some(x) == <<x>>

S_Authorization == <<"A","u","t","h","o","r","i","z","a","t","i","o","n">>
S_authorization == <<"a","u","t","h","o","r","i","z","a","t","i","o","n">>
S_Accept        == <<"A","c","c","e","p","t">>
S_basic         == <<"b","a","s","i","c">>
S_digest        == <<"d","i","g","e","s","t">>
S_aws           == <<"a","w","s">>
S_cognito       == <<"c","o","g","n","i","t","o">>

\* misc.getHeader: the value of the key equal to name up to case, None when absent
MatchingKeys(headers, name) ==
    {k \in DOMAIN headers : ToLowerCase(k) = ToLowerCase(name)}
getHeader(headers, name) ==
    IF MatchingKeys(headers, name) = {} THEN None
    ELSE headers[CHOOSE k \in MatchingKeys(headers, name) : TRUE]

\* misc.removeHeader: delete the key equal to name up to case
removeHeader(headers, name) ==
    IF MatchingKeys(headers, name) = {} THEN headers
    ELSE LET k == CHOOSE k \in MatchingKeys(headers, name) : TRUE
         IN [h \in DOMAIN headers \ {k} |-> headers[h]]

\* Object.assign({}, httpRequest.headers): the object the copy lands in
CloneTarget_Alias(h, src) == src
CloneTarget(h, src) == Cardinality(DOMAIN h) + 1

ObjectAssign(h, target, src) ==
    [r \in DOMAIN h \cup {target} |-> IF r = target THEN h[src] ELSE h[r]]

(***************************************************************************)
(* HttpClient.prepareOptions                                               *)
(***************************************************************************)
\* scheme.toLowerCase()
NormalizedScheme_AsWritten(scheme) == scheme
NormalizedScheme(scheme) == ToLowerCase(scheme)

\* const [username, password] = user.split(':')
BasicPair(user) ==
    LET parts == SplitOn(user, ":")
    IN [username |-> parts[1],
        password |-> IF Len(parts) >= 2 THEN Some(parts[2]) ELSE None]

\* the Authorization block: what it does to the cloned headers and the options.
\* kind "throw" is the TypeError of user.includes on an undefined user.
AuthDispatch(value) ==
    LET fields == SplitSpace(value, <<>>)
        scheme == fields[1]
        hasUser == Len(fields) >= 2
        user   == IF hasUser THEN fields[2] ELSE <<>>
        args   == IF Len(fields) >= 3 THEN SubSeq(fields, 3, Len(fields)) ELSE <<>>
        normalizedScheme == NormalizedScheme(scheme)
        nothing == [kind |-> "none", remove |-> FALSE, username |-> None,
                    password |-> None, afterResponse |-> <<>>, beforeRequest |-> <<>>]
    IN IF value = <<>> THEN nothing
       ELSE IF Len(args) > 0 THEN
           LET pass == JoinSpace(args) IN
           IF normalizedScheme = S_basic THEN
               [nothing EXCEPT !.kind = "basic", !.remove = TRUE,
                               !.username = Some(user), !.password = Some(pass)]
           ELSE IF normalizedScheme = S_digest THEN
               [nothing EXCEPT !.kind = "digest", !.remove = TRUE,
                    !.afterResponse = <<[hook |-> "digest", user |-> user, pass |-> pass]>>]
           ELSE IF normalizedScheme = S_aws THEN
               [nothing EXCEPT !.kind = "aws", !.remove = TRUE,
                    !.beforeRequest = <<[hook |-> "awsSignature", authorization |-> value]>>]
           ELSE IF normalizedScheme = S_cognito THEN
               [nothing EXCEPT !.kind = "cognito", !.remove = TRUE]
           ELSE nothing
       ELSE IF normalizedScheme = S_basic THEN
           IF ~hasUser THEN [nothing EXCEPT !.kind = "throw"]
           ELSE IF Includes(user, ":") THEN
               [nothing EXCEPT !.kind = "basic", !.remove = TRUE,
                               !.username = Some(BasicPair(user).username),
                               !.password = BasicPair(user).password]
           ELSE nothing
       ELSE nothing

\* the hook awsCognito(authorization) resolves to
CognitoHook(value) == [hook |-> "awsCognito", authorization |-> value]

\* await awsCognito(authorization): prepareOptions is suspended until it settles
NeedsAwait_Never(kind) == FALSE
NeedsAwait(kind) == kind = "cognito"

\* getRequestCertificate: the host[:port] of the URL looked up verbatim
getRequestCertificate(url, s) ==
    LET host == UrlParse(url).host
    IN IF host = <<>> \/ host \notin s.hostCertificates THEN None ELSE Some(host)

S_httpColon  == <<"h","t","t","p",":">>
S_httpsColon == <<"h","t","t","p","s",":">>

\* the proxy block: the agent, None when the proxy is unset, bypassed or not http(s)
ProxyAgent(url, s) ==
    IF s.proxy # <<>> /\ ~ignoreProxy(url, s.excludeHostsForProxy)
    THEN LET proxyEndpoint == UrlParse(s.proxy) IN
         IF proxyEndpoint.protocol \in {S_httpColon, S_httpsColon}
         THEN Some([ctor |-> IF StartsWith(url, S_httpColon)
                             THEN "http-proxy-agent" ELSE "https-proxy-agent",
                    host |-> proxyEndpoint.hostname,
                    port |-> proxyEndpoint.port,
                    rejectUnauthorized |-> s.proxyStrictSSL])
         ELSE None
    ELSE None

\* the options object literal, with the timeout and the cookie jar
BaseOptions(req, s, headersRef) ==
    [headers        |-> headersRef,
     method         |-> req.method,
     body           |-> IF req.body = "stream" THEN "buffer" ELSE req.body,
     followRedirect |-> s.followRedirect,
     retry          |-> 0,
     timeout        |-> IF s.timeoutInMilliseconds > 0
                        THEN Some(s.timeoutInMilliseconds) ELSE None,
     cookieJar      |-> s.rememberCookiesForSubsequentRequests,
     username       |-> None,
     password       |-> None,
     afterResponse  |-> <<>>,
     beforeRequest  |-> <<>>,
     certificate    |-> None,
     agent          |-> None]

\* Object.assign(options, certificate)
WithCertificate(o, req, s) ==
    [o EXCEPT !.certificate = getRequestCertificate(req.url, s)]

(***************************************************************************)
(* Inputs of the prepareOptions specification                              *)
(***************************************************************************)
SeqsUpTo(S, n) == UNION {[1..k -> S] : k \in 0..n}

S_acom   == <<"a",".","c","o","m">>
S_ACom   == <<"A",".","C","o","m">>
S_bcom   == <<"b",".","c","o","m">>
S_pcom   == <<"p",".","c","o","m">>
S_80     == <<"8","0">>
S_8080   == <<"8","0","8","0">>
S_http   == <<"h","t","t","p">>
S_https  == <<"h","t","t","p","s">>
S_socks  == <<"s","o","c","k","s">>

MakeUrl(proto, host, port) ==
    proto \o <<":","/","/">> \o host
          \o (IF port = <<>> THEN <<>> ELSE <<":">> \o port) \o <<"/","x">>

HostPort(host, port) == IF port = <<>> THEN host ELSE host \o <<":">> \o port

Schemes == { <<"B","a","s","i","c">>, <<"B","A","S","I","C">>,
             <<"D","i","g","e","s","t">>, <<"A","W","S">>,
             <<"C","O","G","N","I","T","O">>, <<"B","e","a","r","e","r">>,
             <<" ","D","i","g","e","s","t">> }
TailChars == {"a", ":", " "}

\* "", "<scheme>" and "<scheme> <tail>"; one scheme comes after a leading space
AuthValues ==
    {<<>>} \cup Schemes
           \cup {sc \o <<" ">> \o t : sc \in Schemes, t \in SeqsUpTo(TailChars, MaxTail)}

HeaderMaps ==
    LET base == [n \in {S_Accept} |-> <<"a">>] IN
    {base} \cup
    {[n \in {S_Accept, an} |-> IF n = an THEN v ELSE <<"a">>] :
        an \in {S_Authorization, S_authorization}, v \in AuthValues}

NoProxySettings ==
    [proxy |-> <<>>, excludeHostsForProxy |-> <<>>, proxyStrictSSL |-> FALSE,
     hostCertificates |-> {}, timeoutInMilliseconds |-> 0, followRedirect |-> TRUE,
     rememberCookiesForSubsequentRequests |-> FALSE]

Scenarios ==
    { [url |-> MakeUrl(S_http, S_acom, <<>>), body |-> "none", s |-> NoProxySettings],
      [url |-> MakeUrl(S_http, S_acom, <<>>), body |-> "string",
       s |-> [NoProxySettings EXCEPT !.proxy = MakeUrl(S_http, S_pcom, S_8080),
                                     !.timeoutInMilliseconds = 5,
                                     !.hostCertificates = {S_acom}]],
      [url |-> MakeUrl(S_https, S_acom, S_80), body |-> "stream",
       s |-> [NoProxySettings EXCEPT !.proxy = MakeUrl(S_https, S_pcom, S_8080),
                                     !.excludeHostsForProxy = <<S_bcom>>,
                                     !.rememberCookiesForSubsequentRequests = TRUE,
                                     !.proxyStrictSSL = TRUE]],
      [url |-> MakeUrl(S_https, S_acom, S_80), body |-> "none",
       s |-> [NoProxySettings EXCEPT !.proxy = MakeUrl(S_http, S_pcom, S_8080),
                                     !.excludeHostsForProxy = <<HostPort(S_ACom, S_80)>>,
                                     !.followRedirect = FALSE]],
      [url |-> MakeUrl(S_http, S_acom, <<>>), body |-> "none",
       s |-> [NoProxySettings EXCEPT !.proxy = MakeUrl(S_socks, S_pcom, S_8080)]] }

IdleCognito == [state |-> "idle", authorization |-> <<>>]
NoRequest   == [issued |-> FALSE, listeners |-> {}]

PrepIdle ==
    /\ pc = "off" /\ httpRequest = "off" /\ heap = "off" /\ settings = "off"
    /\ options = "off" /\ sendPromise = "off" /\ authorization = "off"
    /\ cognito = "off" /\ request = "off"

SendIdle ==
    /\ phase = "off" /\ promise = "off" /\ resolvedOn = "off" /\ response = "off"
    /\ encoding = "off" /\ bodySize = "off" /\ headersSize = "off" /\ bodyBuffer = "off"
    /\ httpResponse = "off" /\ received = "off" /\ decodeEscaped = "off"

ProxyIdle ==
    /\ proxyPc = "off" /\ requestUrl = "off" /\ excludeHostsForProxy = "off"
    /\ ignoreResult = "off"

(***************************************************************************)
(* send up to the transport request, with prepareOptions                   *)
(***************************************************************************)
InitPrepare ==
    /\ \E sc \in Scenarios :
        /\ httpRequest = [url |-> sc.url, method |-> "GET", headers |-> 1,
                          body |-> sc.body, underlyingRequest |-> "none"]
        /\ settings = sc.s
    /\ \E h \in HeaderMaps : heap = [r \in {1} |-> h]
    /\ pc = "start"
    /\ options = [headers |-> 0]
    /\ sendPromise = "pending"
    /\ authorization = <<>>
    /\ cognito = IdleCognito
    /\ request = NoRequest
    /\ SendIdle /\ ProxyIdle

\* prepareOptions from the certificate block on: it returns, or it is suspended
\* at the await of the import of the proxy agent
CertificateAndProxy(o) ==
    /\ options' = WithCertificate(o, httpRequest, settings)
    /\ pc' = IF ProxyAgent(httpRequest.url, settings) # None
             THEN "awaitImport" ELSE "prepared"

\* prepareOptions from the clone of the headers on: it throws, is suspended at
\* the await of awsCognito or of the import, or returns
CloneAndAuthorize ==
    LET src   == httpRequest.headers
        ref   == CloneTarget(heap, src)
        heap1 == ObjectAssign(heap, ref, src)
        o0    == BaseOptions(httpRequest, settings, ref)
        auth  == getHeader(heap1[ref], S_Authorization)
        eff   == AuthDispatch(auth)
        heap2 == IF eff.remove
                 THEN [heap1 EXCEPT ![ref] = removeHeader(heap1[ref], S_Authorization)]
                 ELSE heap1
        o1    == [o0 EXCEPT !.username = eff.username, !.password = eff.password,
                            !.afterResponse = eff.afterResponse,
                            !.beforeRequest = eff.beforeRequest]
    IN /\ authorization' = auth
       /\ IF eff.kind = "throw"
          THEN /\ heap' = heap1
               /\ options' = o0
               /\ pc' = "prepareRejected"
               /\ cognito' = cognito
          ELSE /\ heap' = heap2
               /\ cognito' = IF eff.kind = "cognito"
                             THEN [state |-> "pending", authorization |-> auth]
                             ELSE cognito
               /\ IF NeedsAwait(eff.kind)
                  THEN options' = o1 /\ pc' = "awaitCognito"
                  ELSE CertificateAndProxy(o1)

\* send is called: prepareOptions runs to its first await, its throw or its
\* return, and send is suspended at its own await of prepareOptions
CallSend ==
    /\ pc = "start"
    /\ IF httpRequest.body = "stream"
       THEN /\ pc' = "awaitBody"
            /\ UNCHANGED <<heap, options, authorization, cognito>>
       ELSE CloneAndAuthorize
    /\ UNCHANGED <<httpRequest, settings, sendPromise, request, sendVars, proxyVars>>

\* convertStreamToBuffer resolves: prepareOptions goes on with the headers as
\* they are now
BodyRead ==
    /\ pc = "awaitBody"
    /\ CloneAndAuthorize
    /\ UNCHANGED <<httpRequest, settings, sendPromise, request, sendVars, proxyVars>>

\* convertStreamToBuffer rejects: prepareOptions rejects
BodyReadFails ==
    /\ pc = "awaitBody"
    /\ pc' = "prepareRejected"
    /\ UNCHANGED <<httpRequest, heap, settings, options, sendPromise, authorization,
                   cognito, request, sendVars, proxyVars>>

\* awsCognito resolves: the hook is pushed and prepareOptions goes on
CognitoResolve ==
    /\ pc = "awaitCognito"
    /\ cognito.state = "pending"
    /\ cognito' = [cognito EXCEPT !.state = "resolved"]
    /\ CertificateAndProxy(
           [options EXCEPT !.beforeRequest = Append(@, CognitoHook(cognito.authorization))])
    /\ UNCHANGED <<httpRequest, heap, settings, sendPromise, authorization, request,
                   sendVars, proxyVars>>

\* awsCognito rejects: prepareOptions rejects
CognitoReject ==
    /\ pc = "awaitCognito"
    /\ cognito.state = "pending"
    /\ cognito' = [cognito EXCEPT !.state = "failed"]
    /\ pc' = "prepareRejected"
    /\ UNCHANGED <<httpRequest, heap, settings, options, sendPromise, authorization,
                   request, sendVars, proxyVars>>

\* the import of the proxy agent resolves: the agent is set, prepareOptions returns
ImportResolved ==
    /\ pc = "awaitImport"
    /\ options' = [options EXCEPT !.agent = ProxyAgent(httpRequest.url, settings)]
    /\ pc' = "prepared"
    /\ UNCHANGED <<httpRequest, heap, settings, sendPromise, authorization, cognito,
                   request, sendVars, proxyVars>>

\* send resumes with the options: got.default(requestUrl, options),
\* setUnderlyingRequest, and the promise executor with its 'response' listener
IssueRequest ==
    /\ pc = "prepared"
    /\ request' = [issued |-> TRUE, listeners |-> {"response"}]
    /\ httpRequest' = [httpRequest EXCEPT !.underlyingRequest = "request"]
    /\ pc' = "issued"
    /\ UNCHANGED <<heap, settings, options, sendPromise, authorization, cognito,
                   sendVars, proxyVars>>

\* send resumes with the rejection of prepareOptions: its promise rejects
SendRejects ==
    /\ pc = "prepareRejected"
    /\ sendPromise' = "rejected"
    /\ pc' = "rejected"
    /\ UNCHANGED <<httpRequest, heap, settings, options, authorization, cognito, request,
                   sendVars, proxyVars>>

\* values the caller may give the Authorization header while send is suspended
CallerValues ==
    { <<"B","a","s","i","c"," ","a",":","a">>, <<"A","W","S"," ","a"," ","a">> }

\* the caller, running while send is suspended, sets an Authorization header on
\* its request
CallerSetsAuthorization ==
    /\ pc \in {"awaitBody", "awaitCognito", "awaitImport", "prepared", "prepareRejected"}
    /\ ~\E k \in DOMAIN heap[httpRequest.headers] : ToLowerCase(k) = S_authorization
    /\ \E v \in CallerValues :
          heap' = [heap EXCEPT ![httpRequest.headers] =
                      [n \in DOMAIN @ \cup {S_Authorization} |->
                          IF n = S_Authorization THEN v ELSE @[n]]]
    /\ UNCHANGED <<pc, httpRequest, settings, options, sendPromise, authorization, cognito,
                   request, sendVars, proxyVars>>

NextPrepare ==
    \/ CallSend
    \/ BodyRead
    \/ BodyReadFails
    \/ CognitoResolve
    \/ CognitoReject
    \/ ImportResolved
    \/ IssueRequest
    \/ SendRejects
    \/ CallerSetsAuthorization

SpecPrepare == InitPrepare /\ [][NextPrepare]_vars

\* the continuation of send after a rejected prepareOptions eventually runs: the
\* event loop does not starve the reaction of a settled promise
FairSpecPrepare == SpecPrepare /\ WF_vars(SendRejects)

(***************************************************************************)
(* ignoreProxy applied to a URL and an exclude list                        *)
(***************************************************************************)
ProxyUrls ==
    {MakeUrl(S_http, h, p) : h \in {S_acom, S_ACom, S_bcom}, p \in {<<>>, S_80, S_8080}}

ExcludeEntries ==
    {HostPort(h, p) : h \in {S_acom, S_ACom, S_bcom}, p \in {<<>>, S_80, S_8080}}

InitProxy ==
    /\ proxyPc = "call"
    /\ requestUrl \in ProxyUrls
    /\ excludeHostsForProxy \in SeqsUpTo(ExcludeEntries, MaxList)
    /\ ignoreResult = "none"
    /\ PrepIdle /\ SendIdle

CallIgnoreProxy ==
    /\ proxyPc = "call"
    /\ ignoreResult' = ignoreProxy(requestUrl, excludeHostsForProxy)
    /\ proxyPc' = "done"
    /\ UNCHANGED <<requestUrl, excludeHostsForProxy, prepVars, sendVars>>

NextProxy == CallIgnoreProxy

SpecProxy == InitProxy /\ [][NextProxy]_vars

(***************************************************************************)
(* Properties of prepareOptions (checked under SpecPrepare)                *)
(***************************************************************************)
Range(f) == {f[i] : i \in DOMAIN f}

\* prepareOptions has returned its options
Returned == pc \in {"prepared", "issued"}

\* the Authorization value prepareOptions read, read as the claims read it: the
\* scheme is the text before the first white space, lower-cased
CallerAuth == authorization
FirstSpaceIdx(v) ==
    IF \E i \in DOMAIN v : IsSpace(v[i])
    THEN CHOOSE i \in DOMAIN v : IsSpace(v[i]) /\ \A j \in 1..(i-1) : ~IsSpace(v[j])
    ELSE 0
LastSpaceIdx(v) ==
    IF \E i \in DOMAIN v : IsSpace(v[i])
    THEN CHOOSE i \in DOMAIN v : IsSpace(v[i]) /\ \A j \in (i+1)..Len(v) : ~IsSpace(v[j])
    ELSE 0
SchemeOf(v) ==
    ToLowerCase(IF FirstSpaceIdx(v) = 0 THEN v ELSE SubSeq(v, 1, FirstSpaceIdx(v) - 1))
SpaceRuns(v) ==
    Cardinality({i \in DOMAIN v : IsSpace(v[i]) /\ (i = 1 \/ ~IsSpace(v[i-1]))})
HasAuthHeader(h) == \E k \in DOMAIN h : ToLowerCase(k) = S_authorization
HookCount == Len(options.afterResponse) + Len(options.beforeRequest)

\* C1: no step of prepareOptions or send changes the caller's header mapping
\* object, whatever the Authorization scheme and whether prepareOptions returns
\* or rejects (only the caller's own writes change it); the headers of the
\* transport options are a different object.
C1_CallerHeadersUnchanged ==
    [][ \/ CallerSetsAuthorization
        \/ /\ httpRequest'.headers = httpRequest.headers
           /\ heap'[httpRequest.headers] = heap[httpRequest.headers]
           /\ options'.headers # httpRequest.headers ]_vars

\* a header was removed, and only from the clone
C1_Witness ==
    /\ pc = "prepared"
    /\ authorization # <<>>
    /\ getHeader(heap[httpRequest.headers], S_Authorization) = authorization
    /\ ~HasAuthHeader(heap[options.headers])

\* C6: for "<basic> <token>" with a ':' in the token, the transport username is
\* the text before the first ':', the password all of the text after the first
\* ':' (later ':' included), and no Authorization header is left.
C6_BasicSplitAtFirstColon ==
    LET v     == CallerAuth
        token == SubSeq(v, LastSpaceIdx(v) + 1, Len(v))
        colon == IndexOf(token, ":", 1)
    IN (/\ Returned
        /\ v # <<>>
        /\ SchemeOf(v) = S_basic
        /\ SpaceRuns(v) = 1
        /\ ~IsSpace(v[Len(v)])
        /\ Includes(token, ":"))
       => /\ options.username = Some(SubSeq(token, 1, colon - 1))
          /\ options.password = Some(SubSeq(token, colon + 1, Len(token)))
          /\ ~HasAuthHeader(heap[options.headers])

HeaderRemovedOneHook(v) ==
    /\ ~HasAuthHeader(heap[options.headers])
    /\ HookCount = 1
    /\ SchemeOf(v) = S_digest =>
           Len(options.afterResponse) = 1 /\ options.afterResponse[1].hook = "digest"
    /\ SchemeOf(v) = S_aws =>
           Len(options.beforeRequest) = 1 /\ options.beforeRequest[1].hook = "awsSignature"
    /\ SchemeOf(v) = S_cognito =>
           Len(options.beforeRequest) = 1 /\ options.beforeRequest[1].hook = "awsCognito"

HeaderLeftAlone ==
    /\ getHeader(heap[options.headers], S_Authorization) = CallerAuth
    /\ HasAuthHeader(heap[options.headers])
    /\ options.username = None /\ options.password = None
    /\ HookCount = 0

\* C7 as stated: digest, aws and cognito values, with any number of tokens after
\* the scheme, lose the header and get exactly one hook; any other unrecognized
\* scheme leaves the header alone and sets no credentials or hooks.
C7_SchemeDispatchAnyTokens ==
    LET v == CallerAuth IN
    (Returned /\ v # <<>>) =>
        /\ SchemeOf(v) \in {S_digest, S_aws, S_cognito} => HeaderRemovedOneHook(v)
        /\ SchemeOf(v) \notin {S_basic, S_digest, S_aws, S_cognito} => HeaderLeftAlone

\* C7 amended: for a value that begins with the scheme digest, aws or cognito,
\* the header is removed and the hook registered when at least two runs of white
\* space follow the scheme (a user field and one more field, which may be
\* empty); with fewer fields after such a scheme, and for every unrecognized
\* scheme (the empty one before leading white space included), the header is
\* left alone.
C7_SchemeDispatchTwoFields ==
    LET v == CallerAuth IN
    (Returned /\ v # <<>>) =>
        /\ (SchemeOf(v) \in {S_digest, S_aws, S_cognito} /\ SpaceRuns(v) >= 2)
               => HeaderRemovedOneHook(v)
        /\ (SchemeOf(v) \in {S_digest, S_aws, S_cognito} /\ SpaceRuns(v) < 2)
               => HeaderLeftAlone
        /\ SchemeOf(v) \notin {S_basic, S_digest, S_aws, S_cognito} => HeaderLeftAlone

\* a digest value with two fields after the scheme has its post-response hook
C7_Witness ==
    /\ pc = "prepared"
    /\ SchemeOf(CallerAuth) = S_digest
    /\ SpaceRuns(CallerAuth) = 2
    /\ Len(options.afterResponse) = 1

\* the session resolution completed before prepareOptions returned, and its
\* pre-request hook is in the options
CognitoHookRegistered(v) ==
    /\ cognito.state = "resolved"
    /\ CognitoHook(v) \in Range(options.beforeRequest)

\* a transport request exists only after prepareOptions returned, and never
\* after a failed resolution: then prepareOptions has rejected, no request was
\* issued, no request handle is attached and no response handler is registered
NoRequestBeforeResolution ==
    /\ request.issued => pc = "issued" /\ cognito.state \in {"idle", "resolved"}
    /\ cognito.state = "failed" =>
           /\ pc \in {"prepareRejected", "rejected"}
           /\ pc = "rejected" => sendPromise = "rejected"
           /\ ~request.issued
           /\ request.listeners = {}
           /\ httpRequest.underlyingRequest = "none"

\* C9 as stated: for every cognito Authorization header the session resolution
\* has completed and its pre-request hook is in the options whenever
\* prepareOptions has returned, hence whenever the transport request exists;
\* when the resolution fails, send rejects and no transport request is ever
\* issued, no request handle attached and no response handler registered.
C9_CognitoAnyFields ==
    /\ [](LET v == CallerAuth IN
          /\ (Returned /\ SchemeOf(v) = S_cognito) => CognitoHookRegistered(v)
          /\ NoRequestBeforeResolution)
    /\ (cognito.state = "failed") ~> (sendPromise = "rejected")

\* C9 amended: for a cognito header in which at least two runs of white space
\* follow the scheme (a user field and one more field), the session resolution
\* has completed and its pre-request hook is in the options whenever
\* prepareOptions has returned, hence whenever the transport request exists;
\* for a cognito header with fewer fields no resolution is started, the header
\* is left alone and no hook is set; when the resolution fails, send is
\* eventually rejected and no transport request is ever issued, no request
\* handle attached and no response handler registered.
C9_CognitoBeforeRequest ==
    /\ [](LET v == CallerAuth IN
          /\ (Returned /\ SchemeOf(v) = S_cognito /\ SpaceRuns(v) >= 2)
                 => CognitoHookRegistered(v)
          /\ (Returned /\ SchemeOf(v) = S_cognito /\ SpaceRuns(v) < 2)
                 => cognito.state = "idle" /\ HeaderLeftAlone
          /\ NoRequestBeforeResolution)
    /\ (cognito.state = "failed") ~> (sendPromise = "rejected")

\* the request of a cognito header with a user and a secret was issued, after
\* the resolution
C9_Witness ==
    /\ pc = "issued"
    /\ SchemeOf(CallerAuth) = S_cognito
    /\ SpaceRuns(CallerAuth) >= 2
    /\ cognito.state = "resolved"
    /\ request.issued

(***************************************************************************)
(* Property of ignoreProxy (checked under SpecProxy)                       *)
(***************************************************************************)
\* an exclude entry read as host[:port], split at its first ':'
EntryHost(e) == IF Includes(e, ":") THEN SubSeq(e, 1, IndexOf(e, ":", 1) - 1) ELSE e
EntryPort(e) == IF Includes(e, ":") THEN SubSeq(e, IndexOf(e, ":", 1) + 1, Len(e)) ELSE <<>>

EntryMatches(e, host, port) ==
    IF port = <<>>
    THEN ~Includes(e, ":") /\ e = host
    ELSE EntryHost(e) = host /\ (~Includes(e, ":") \/ EntryPort(e) = port)

\* C8: ignoreProxy is true exactly when some lower-cased entry matches: a bare
\* host name equal to the URL's for a URL without a port; the same host and no
\* port or the same port for a URL with one; false for an empty list.
C8_IgnoreProxyMatches ==
    proxyPc = "done" =>
        /\ ignoreResult =
             (\E i \in DOMAIN excludeHostsForProxy :
                 EntryMatches(ToLowerCase(excludeHostsForProxy[i]),
                              UrlParse(requestUrl).hostname, UrlParse(requestUrl).port))
        /\ excludeHostsForProxy = <<>> => ignoreResult = FALSE
        /\ (requestUrl = MakeUrl(S_http, S_acom, <<>>) /\ excludeHostsForProxy = <<S_acom>>)
               => ignoreResult = TRUE
        /\ (requestUrl = MakeUrl(S_http, S_acom, S_8080)
              /\ excludeHostsForProxy = <<HostPort(S_acom, S_80)>>)
               => ignoreResult = FALSE

\* a URL with a port bypassed by an entry that names the same port
C8_Witness ==
    /\ proxyPc = "done"
    /\ ignoreResult = TRUE
    /\ UrlParse(requestUrl).port = S_8080
    /\ Len(excludeHostsForProxy) = 2
    /\ \A i \in DOMAIN excludeHostsForProxy : Includes(excludeHostsForProxy[i], ":")

(***************************************************************************)
(* Decoding of a data chunk                                                *)
(***************************************************************************)
\* the UTF-16 code units of a code point
CodeUnits(cp) ==
    IF cp < 65536 THEN <<cp>>
    ELSE <<55296 + ((cp - 65536) \div 1024), 56320 + ((cp - 65536) % 1024)>>

\* UTF-8 decoding of one complete buffer (Buffer.toString, iconv.decode with
\* utf8): every maximal ill-formed part becomes U+FFFD (65533), and so does a
\* sequence the buffer ends in the middle of.
\* needed/seen/cp/lo/hi are the decoder's state between bytes.
RECURSIVE Utf8Step(_, _, _, _, _, _)
Utf8Step(b, needed, seen, cp, lo, hi) ==
    IF b = <<>> THEN (IF needed # 0 THEN <<65533>> ELSE <<>>)
    ELSE LET x == b[1] IN
         IF needed = 0 THEN
             IF x <= 127 THEN <<x>> \o Utf8Step(Tail(b), 0, 0, 0, 128, 191)
             ELSE IF x >= 194 /\ x <= 223 THEN Utf8Step(Tail(b), 1, 0, x % 32, 128, 191)
             ELSE IF x >= 224 /\ x <= 239 THEN
                 Utf8Step(Tail(b), 2, 0, x % 16,
                          IF x = 224 THEN 160 ELSE 128, IF x = 237 THEN 159 ELSE 191)
             ELSE IF x >= 240 /\ x <= 244 THEN
                 Utf8Step(Tail(b), 3, 0, x % 8,
                          IF x = 240 THEN 144 ELSE 128, IF x = 244 THEN 143 ELSE 191)
             ELSE <<65533>> \o Utf8Step(Tail(b), 0, 0, 0, 128, 191)
         ELSE IF x < lo \/ x > hi THEN <<65533>> \o Utf8Step(b, 0, 0, 0, 128, 191)
         ELSE IF seen + 1 = needed
              THEN CodeUnits(cp * 64 + (x % 64)) \o Utf8Step(Tail(b), 0, 0, 0, 128, 191)
              ELSE Utf8Step(Tail(b), needed, seen + 1, cp * 64 + (x % 64), 128, 191)

Utf8Decode(bytes) == Utf8Step(bytes, 0, 0, 0, 128, 191)

\* iconv-lite's canonical encoding name: lower case, letters and digits only
IsAlnum(c) ==
    \/ \E i \in DOMAIN LowerChars : LowerChars[i] = c
    \/ c \in {"0","1","2","3","4","5","6","7","8","9"}
CanonicalEncoding(enc) == SelectSeq(ToLowerCase(enc), IsAlnum)

S_utf8     == <<"u","t","f","8">>
S_iso88591 == <<"i","s","o","8","8","5","9","1">>
S_latin1   == <<"l","a","t","i","n","1">>

\* iconv.encodingExists, over the encodings the model decodes
encodingExists(enc) == CanonicalEncoding(enc) \in {S_utf8, S_iso88591, S_latin1}

\* iconv.decode(chunk, encoding): utf8 removes a leading byte order mark
\* (U+FEFF, 65279); the single-byte encodings map byte b to U+00b
iconvDecode(chunk, enc) ==
    IF CanonicalEncoding(enc) = S_utf8
    THEN LET str == Utf8Decode(chunk)
         IN IF str # <<>> /\ str[1] = 65279 THEN Tail(str) ELSE str
    ELSE chunk

\* HttpClient.decodeEscapedUnicodeCharacters: /\\u([0-9a-fA-F]{4})/gi, a decoded
\* '"' (34) written back as \" (92, 34); matches do not overlap and the
\* replacement text is not scanned again
HexValue(u) ==
    IF u >= 48 /\ u <= 57 THEN u - 48
    ELSE IF u >= 97 /\ u <= 102 THEN u - 87
    ELSE IF u >= 65 /\ u <= 70 THEN u - 55
    ELSE -1

RECURSIVE decodeEscapedUnicodeCharacters(_)
decodeEscapedUnicodeCharacters(body) ==
    IF body = <<>> THEN <<>>
    ELSE IF /\ Len(body) >= 6
            /\ body[1] = 92
            /\ body[2] \in {117, 85}
            /\ \A k \in 3..6 : HexValue(body[k]) >= 0
    THEN LET code == HexValue(body[3]) * 4096 + HexValue(body[4]) * 256
                     + HexValue(body[5]) * 16 + HexValue(body[6])
         IN (IF code = 34 THEN <<92, 34>> ELSE <<code>>)
            \o decodeEscapedUnicodeCharacters(SubSeq(body, 7, Len(body)))
    ELSE <<body[1]>> \o decodeEscapedUnicodeCharacters(Tail(body))

\* the text one data chunk adds to the body
BodyString(chunk, enc, unescape) ==
    LET bodyString == IF encodingExists(enc) THEN iconvDecode(chunk, enc)
                      ELSE Utf8Decode(chunk)
    IN IF unescape THEN decodeEscapedUnicodeCharacters(bodyString) ELSE bodyString

(***************************************************************************)
(* Response metadata                                                       *)
(***************************************************************************)
RECURSIVE Trim(_)
Trim(s) ==
    IF s # <<>> /\ IsSpace(s[1]) THEN Trim(Tail(s))
    ELSE IF s # <<>> /\ IsSpace(s[Len(s)]) THEN Trim(SubSeq(s, 1, Len(s) - 1))
    ELSE s

S_charsetEq   == <<"c","h","a","r","s","e","t","=">>
S_contentType == <<"c","o","n","t","e","n","t","-","t","y","p","e">>
S_eventStream == <<"t","e","x","t","/","e","v","e","n","t","-","s","t","r","e","a","m">>

\* MimeUtility.parse: the essence is the lower-cased media type without its
\* parameters, the charset the value of the charset parameter
MimeParse(contentType) ==
    LET params == SplitOn(contentType, ";")
        rest   == [i \in 1..(Len(params) - 1) |-> Trim(params[i + 1])]
        cs     == {i \in DOMAIN rest : StartsWith(rest[i], S_charsetEq)}
    IN [essence |-> ToLowerCase(Trim(params[1])),
        charset |-> IF cs = {} THEN None
                    ELSE LET i == CHOOSE i \in cs : \A j \in cs : i <= j
                         IN SubSeq(rest[i], Len(S_charsetEq) + 1, Len(rest[i]))]

\* response.headers of the transport (Node's IncomingMessage): the names are
\* lower-cased; of a name that occurs more than once, set-cookie keeps the list
\* of its values, the names below keep the first value, cookie joins the values
\* with "; " and every other name with ", "
FirstValueNames ==
    { <<"a","g","e">>,
      <<"a","u","t","h","o","r","i","z","a","t","i","o","n">>,
      <<"c","o","n","t","e","n","t","-","l","e","n","g","t","h">>,
      <<"c","o","n","t","e","n","t","-","t","y","p","e">>,
      <<"e","t","a","g">>,
      <<"e","x","p","i","r","e","s">>,
      <<"f","r","o","m">>,
      <<"h","o","s","t">>,
      <<"i","f","-","m","o","d","i","f","i","e","d","-","s","i","n","c","e">>,
      <<"i","f","-","u","n","m","o","d","i","f","i","e","d","-","s","i","n","c","e">>,
      <<"l","a","s","t","-","m","o","d","i","f","i","e","d">>,
      <<"l","o","c","a","t","i","o","n">>,
      <<"m","a","x","-","f","o","r","w","a","r","d","s">>,
      <<"p","r","o","x","y","-","a","u","t","h","o","r","i","z","a","t","i","o","n">>,
      <<"r","e","f","e","r","e","r">>,
      <<"r","e","t","r","y","-","a","f","t","e","r">>,
      <<"s","e","r","v","e","r">>,
      <<"u","s","e","r","-","a","g","e","n","t">> }
S_setCookie == <<"s","e","t","-","c","o","o","k","i","e">>
S_cookie    == <<"c","o","o","k","i","e">>

RECURSIVE ValuesFrom(_, _, _)
ValuesFrom(rawHeaders, name, i) ==
    IF 2 * i > Len(rawHeaders) THEN <<>>
    ELSE (IF ToLowerCase(rawHeaders[2 * i - 1]) = name THEN <<rawHeaders[2 * i]>> ELSE <<>>)
         \o ValuesFrom(rawHeaders, name, i + 1)
ValuesOf(rawHeaders, name) == ValuesFrom(rawHeaders, name, 1)

RECURSIVE JoinFrom(_, _, _)
JoinFrom(parts, sep, i) ==
    IF i > Len(parts) THEN <<>>
    ELSE IF i = Len(parts) THEN parts[i]
    ELSE parts[i] \o sep \o JoinFrom(parts, sep, i + 1)
JoinWith(parts, sep) == JoinFrom(parts, sep, 1)

LowerHeaders(rawHeaders) ==
    LET names == {ToLowerCase(rawHeaders[2 * i - 1]) : i \in 1..(Len(rawHeaders) \div 2)}
    IN [n \in names |->
           LET values == ValuesOf(rawHeaders, n) IN
           IF n = S_setCookie THEN values
           ELSE IF n \in FirstValueNames THEN values[1]
           ELSE IF n = S_cookie THEN JoinWith(values, <<";", " ">>)
           ELSE JoinWith(values, <<",", " ">>)]

\* HttpClient.normalizeHeaderNames
normalizeHeaderNames(headers, rawHeaders) ==
    LET keys == {ToLowerCase(rawHeaders[i]) : i \in DOMAIN rawHeaders}
        headersDic == [k \in keys |->
            rawHeaders[CHOOSE i \in DOMAIN rawHeaders :
                          /\ ToLowerCase(rawHeaders[i]) = k
                          /\ \A j \in 1..(i-1) : ToLowerCase(rawHeaders[j]) # k]]
        adjusted(h) == IF h \in keys /\ headersDic[h] # <<>> THEN headersDic[h] ELSE h
    IN [n \in {adjusted(h) : h \in DOMAIN headers} |->
           headers[CHOOSE h \in DOMAIN headers : adjusted(h) = n]]

RECURSIVE SumLen(_)
SumLen(list) == IF list = <<>> THEN 0 ELSE Len(list[1]) + SumLen(Tail(list))

\* the header size estimate of the 'response' handler
HeadersSize(size, rawHeaders) == size + SumLen(rawHeaders) + (Len(rawHeaders) \div 2)

\* the encoding the 'response' handler selects
SelectEncoding(headers) ==
    LET contentType == getHeader(headers, S_contentType)
        charset     == IF contentType # None THEN MimeParse(contentType).charset ELSE None
    IN IF charset = None THEN S_utf8 ELSE charset

\* HttpResponse.essence
Essence(res) ==
    LET contentType == getHeader(res.headers, S_contentType)
    IN IF contentType # None THEN MimeParse(contentType).essence ELSE None

\* if (httpResponse.essence == 'text/event-stream') return resolve(httpResponse)
ResolvesEarly_Never(essence) == FALSE
ResolvesEarly(essence) == essence = S_eventStream

\* bodySize += chunk.length
NextBodySize_ChunkOnly(size, chunk) == Len(chunk)
NextBodySize(size, chunk) == size + Len(chunk)

(***************************************************************************)
(* send after prepareOptions: the transport request and its events         *)
(***************************************************************************)
Reqs == {1, 2}

S_ContentType == <<"C","o","n","t","e","n","t","-","T","y","p","e">>
S_json        == <<"a","p","p","l","i","c","a","t","i","o","n","/","j","s","o","n">>
S_htmlLatin1  == <<"t","e","x","t","/","h","t","m","l",";"," ",
                   "c","h","a","r","s","e","t","=","i","s","o","-","8","8","5","9","-","1">>
S_plainOther  == <<"t","e","x","t","/","p","l","a","i","n",";",
                   "c","h","a","r","s","e","t","=","x","-","n","o","n","e">>

\* raw header lists of the responses the transport may deliver; the first has
\* no content type and a name that occurs twice
RawHeaderLists ==
    { <<<<"X","-","A">>, <<"1">>, <<"x","-","a">>, <<"2">>>>,
      <<S_ContentType, S_eventStream>>,
      <<S_contentType, S_json>>,
      <<S_ContentType, S_htmlLatin1>>,
      <<S_ContentType, S_plainOther>> }

\* data chunks: "caf", the first and the second byte of U+00E9 in UTF-8, and the
\* six characters \u0022
Chunks ==
    { <<99, 97, 102>>, <<195>>, <<169>>, <<92, 117, 48, 48, 50, 50>> }

NoResponse == [rawHeaders |-> <<>>, listeners |-> {}]
NoResult   == [headers |-> <<>>, body |-> <<>>, bodySizeInBytes |-> 0,
               headersSizeInBytes |-> 0, bodyBuffer |-> <<>>]

Delivered == SumLen([r \in 1..Cardinality(Reqs) |-> received[r]])

Init ==
    /\ phase = [r \in Reqs |-> "idle"]
    /\ promise = [r \in Reqs |-> "none"]
    /\ resolvedOn = [r \in Reqs |-> "none"]
    /\ response = [r \in Reqs |-> NoResponse]
    /\ encoding = [r \in Reqs |-> <<>>]
    /\ bodySize = [r \in Reqs |-> 0]
    /\ headersSize = [r \in Reqs |-> 0]
    /\ bodyBuffer = [r \in Reqs |-> <<>>]
    /\ httpResponse = [r \in Reqs |-> NoResult]
    /\ received = [r \in Reqs |-> <<>>]
    /\ decodeEscaped \in BOOLEAN
    /\ PrepIdle /\ ProxyIdle

\* send of a request without an Authorization header is called: prepareOptions
\* runs, send is suspended at its await of prepareOptions and its promise is
\* returned pending
Send(r) ==
    /\ phase[r] = "idle"
    /\ phase' = [phase EXCEPT ![r] = "preparing"]
    /\ promise' = [promise EXCEPT ![r] = "pending"]
    /\ UNCHANGED <<resolvedOn, response, encoding, bodySize, headersSize, bodyBuffer,
                   httpResponse, received, decodeEscaped, prepVars, proxyVars>>

\* send resumes with the options: the closure counters, the transport request
\* and the 'response' listener
Issue(r) ==
    /\ phase[r] = "preparing"
    /\ phase' = [phase EXCEPT ![r] = "issued"]
    /\ bodySize' = [bodySize EXCEPT ![r] = 0]
    /\ headersSize' = [headersSize EXCEPT ![r] = 0]
    /\ UNCHANGED <<promise, resolvedOn, response, encoding, bodyBuffer, httpResponse,
                   received, decodeEscaped, prepVars, proxyVars>>

\* the 'response' handler
OnResponse(r, rawHeaders) ==
    /\ phase[r] = "issued"
    /\ LET headers == LowerHeaders(rawHeaders)
           size    == HeadersSize(headersSize[r], rawHeaders)
           result  == [headers            |-> normalizeHeaderNames(headers, rawHeaders),
                       body               |-> <<>>,
                       bodySizeInBytes    |-> bodySize[r],
                       headersSizeInBytes |-> size,
                       bodyBuffer         |-> <<>>]
           early   == ResolvesEarly(Essence(result))
       IN /\ headersSize' = [headersSize EXCEPT ![r] = size]
          /\ encoding' = [encoding EXCEPT ![r] = SelectEncoding(headers)]
          /\ bodyBuffer' = [bodyBuffer EXCEPT ![r] = <<>>]
          /\ httpResponse' = [httpResponse EXCEPT ![r] = result]
          /\ response' = [response EXCEPT ![r] =
                 [rawHeaders |-> rawHeaders,
                  listeners  |-> IF early THEN {"data"} ELSE {"data", "end"}]]
          /\ promise' = [promise EXCEPT ![r] = IF early THEN "resolved" ELSE @]
          /\ resolvedOn' = [resolvedOn EXCEPT ![r] = IF early THEN "response" ELSE @]
    /\ phase' = [phase EXCEPT ![r] = "responded"]
    /\ UNCHANGED <<bodySize, received, decodeEscaped, prepVars, proxyVars>>

\* the 'data' handler
OnData(r, chunk) ==
    /\ phase[r] = "responded"
    /\ "data" \in response[r].listeners
    /\ Delivered < MaxChunks
    /\ LET size       == NextBodySize(bodySize[r], chunk)
           bodyString == BodyString(chunk, encoding[r], decodeEscaped)
       IN /\ bodySize' = [bodySize EXCEPT ![r] = size]
          /\ httpResponse' = [httpResponse EXCEPT ![r] =
                 [@ EXCEPT !.body = @ \o bodyString,
                           !.bodyBuffer = bodyBuffer[r] \o chunk,
                           !.bodySizeInBytes = size]]
    /\ received' = [received EXCEPT ![r] = Append(@, chunk)]
    /\ UNCHANGED <<phase, promise, resolvedOn, response, encoding, headersSize, bodyBuffer,
                   decodeEscaped, prepVars, proxyVars>>

\* the end of the response stream, with the 'end' handler when it is registered
OnEnd(r) ==
    /\ phase[r] = "responded"
    /\ phase' = [phase EXCEPT ![r] = "ended"]
    /\ IF "end" \in response[r].listeners /\ promise[r] = "pending"
       THEN /\ promise' = [promise EXCEPT ![r] = "resolved"]
            /\ resolvedOn' = [resolvedOn EXCEPT ![r] = "end"]
       ELSE UNCHANGED <<promise, resolvedOn>>
    /\ UNCHANGED <<response, encoding, bodySize, headersSize, bodyBuffer, httpResponse,
                   received, decodeEscaped, prepVars, proxyVars>>

\* the transport fails before any response: the request promise of the transport
\* rejects and no 'response' event follows; send listens to 'response' only
TransportError(r) ==
    /\ phase[r] = "issued"
    /\ phase' = [phase EXCEPT ![r] = "failed"]
    /\ UNCHANGED <<promise, resolvedOn, response, encoding, bodySize, headersSize,
                   bodyBuffer, httpResponse, received, decodeEscaped, prepVars, proxyVars>>

Next ==
    \/ \E r \in Reqs : Send(r)
    \/ \E r \in Reqs : Issue(r)
    \/ \E r \in Reqs : TransportError(r)
    \/ \E r \in Reqs : OnEnd(r)
    \/ \E r \in Reqs : \E rawHeaders \in RawHeaderLists : OnResponse(r, rawHeaders)
    \/ \E r \in Reqs : \E chunk \in Chunks : OnData(r, chunk)

Spec == Init /\ [][Next]_vars

\* every enabled handler eventually runs: the event loop starves no event
FairSpec == Spec /\ WF_vars(Next)

(***************************************************************************)
(* Properties of the response handlers (checked under Spec and FairSpec)   *)
(***************************************************************************)
IsPrefix(a, b) == Len(a) <= Len(b) /\ SubSeq(b, 1, Len(a)) = a
IsSuffix(a, b) == Len(a) <= Len(b) /\ SubSeq(b, Len(b) - Len(a) + 1, Len(b)) = a

RECURSIVE Flatten(_)
Flatten(list) == IF list = <<>> THEN <<>> ELSE list[1] \o Flatten(Tail(list))

\* the text of the chunks, each decoded when it arrived
RECURSIVE ChunkTexts(_, _, _)
ChunkTexts(list, enc, unescape) ==
    IF list = <<>> THEN <<>>
    ELSE BodyString(list[1], enc, unescape) \o ChunkTexts(Tail(list), enc, unescape)

\* the response metadata of r has arrived
HasResult(r) == phase[r] \in {"responded", "ended"}

\* the content type of the response of r has the essence text/event-stream
IsEventStream(r) ==
    LET raw == response[r].rawHeaders IN
    \E i \in 1..(Len(raw) \div 2) :
        /\ ToLowerCase(raw[2 * i - 1]) = S_contentType
        /\ MimeParse(raw[2 * i]).essence = S_eventStream

\* C2: an event-stream response resolves the promise at the metadata event,
\* before any end of stream, and the chunks that follow still reach the body,
\* the buffer and the byte counter of the result; any other response leaves the
\* promise pending through metadata and data and resolves it at the end event.
C2_EarlyResolution ==
    \A r \in Reqs :
        /\ phase[r] \in {"idle", "preparing", "issued", "failed"} => promise[r] # "resolved"
        /\ (HasResult(r) /\ IsEventStream(r)) =>
               /\ promise[r] = "resolved" /\ resolvedOn[r] = "response"
               /\ httpResponse[r].bodySizeInBytes = Len(Flatten(received[r]))
               /\ httpResponse[r].body = ChunkTexts(received[r], encoding[r], decodeEscaped)
               /\ received[r] # <<>> =>
                      IsSuffix(received[r][Len(received[r])], httpResponse[r].bodyBuffer)
        /\ (phase[r] = "responded" /\ ~IsEventStream(r)) => promise[r] = "pending"
        /\ (phase[r] = "ended" /\ ~IsEventStream(r)) =>
               promise[r] = "resolved" /\ resolvedOn[r] = "end"

\* an event stream whose promise is resolved is still open and has taken a chunk
C2_Witness ==
    \E r \in Reqs :
        /\ phase[r] = "responded"
        /\ IsEventStream(r)
        /\ promise[r] = "resolved"
        /\ received[r] # <<>>
        /\ httpResponse[r].bodySizeInBytes > 0

\* C3: once the transport has failed without a response, the promise of send is
\* eventually rejected.
C3_FailureRejects ==
    \A r \in Reqs : (phase[r] = "failed") ~> (promise[r] = "rejected")

\* C4: the raw byte buffer of the result is the concatenation of all the chunks
\* received so far, so its length is bodySizeInBytes.
C4_BufferIsConcatenation ==
    \A r \in Reqs :
        HasResult(r) =>
            /\ httpResponse[r].bodyBuffer = Flatten(received[r])
            /\ Len(httpResponse[r].bodyBuffer) = httpResponse[r].bodySizeInBytes

\* C5: over the data chunks of one response the body only grows at its end,
\* bodySizeInBytes never decreases, and after each chunk bodySizeInBytes is the
\* number of bytes of the chunks of this response so far, whatever the other
\* requests receive.
C5_AppendOnlyCounters ==
    [][ \A r \in Reqs :
          (HasResult(r) /\ HasResult(r)') =>
              /\ IsPrefix(httpResponse[r].body, httpResponse'[r].body)
              /\ httpResponse[r].bodySizeInBytes <= httpResponse'[r].bodySizeInBytes
              /\ httpResponse'[r].bodySizeInBytes = Len(Flatten(received'[r]))
              /\ received'[r] = received[r] => httpResponse'[r] = httpResponse[r] ]_vars

\* both requests have taken chunks, one of them two
C5_Witness ==
    /\ Len(received[1]) = 2
    /\ Len(received[2]) = 1
    /\ httpResponse[1].bodySizeInBytes > httpResponse[2].bodySizeInBytes
    /\ httpResponse[2].bodySizeInBytes > 0

\* C10: the body does not depend on how the bytes were cut into chunks: after
\* the last chunk it is the decoding (and unescaping) of all the bytes as one
\* chunk.
C10_ChunkingIndependent ==
    \A r \in Reqs :
        phase[r] = "ended" =>
            httpResponse[r].body =
                BodyString(Flatten(received[r]), encoding[r], decodeEscaped)

====
